---- MODULE Spec2Model ----
(***************************************************************************)
(* The session relay of codepair: the WebSocket server of registerRoutes   *)
(* (src/unnamed/part_003, lines 17-148).  Each connection owns the two     *)
(* closure variables userId and sessionId; the module-level maps           *)
(* connectedClients and sessionClients are shared by all connections.      *)
(* A handler runs without interruption up to its next await on a storage   *)
(* call; the continuation after the await is a separate step.              *)
(***************************************************************************)
EXTENDS Integers, FiniteSets, Sequences, Bags, TLC

\* ---------------------------------------------------------------- bounds
\* Total number of inbound messages, over all connections, of one run.
MaxMsgs == 3
\* The same, for the runs whose clients edit files in one session.
MaxFileMsgs == 4
\* Number of storage calls of close handlers that reject in one run.
MaxRejects == 1
\* Total number of inbound messages of the runs over the files of MemStorage.
MaxEdits == 4
\* Total number of inbound messages of the runs with three clients and files.
MaxSkipMsgs == 5
\* Total number of inbound messages of the runs with malformed messages.
MaxBadMsgs == 3

\* ------------------------------------------------------- inputs, constants
Conns == {"c1", "c2", "c3"}
Users == {1, 2, 3}
Sessions == {1, 2}
\* Users that have a record in storage (created through /api/auth/register).
StoredUsers == {1, 2}
\* The userId values each connection's client puts in its envelopes.
ClaimedIds == [c \in Conns |-> IF c = "c1" THEN {1} ELSE IF c = "c2" THEN {2} ELSE {1, 3}]

MessageType == {"code-change", "cursor-move", "file-create", "file-delete",
                "chat-message", "session-join", "session-leave",
                "terminal-output", "terminal-input"}
\* The kinds the clients of the model send.  RelayKinds: the session
\* protocol, chat-message standing for the kinds the relay only forwards.
\* FileKinds: the kinds with a storage side effect on files.
RelayKinds == {"session-join", "session-leave", "chat-message"}
FileKinds == {"session-join", "chat-message", "code-change", "file-create"}

\* payload fields the relay reads; 0 and "" are the falsy (absent) values
NoPayload == [fileId |-> 0, content |-> "", name |-> "", language |-> ""]
PayloadsOf(t) ==
  IF t = "code-change" THEN {[NoPayload EXCEPT !.fileId = 10, !.content = "x=1"],
                             [NoPayload EXCEPT !.content = "x=1"]}
  ELSE IF t = "file-create" THEN {[NoPayload EXCEPT !.name = "main.py"]}
  ELSE {NoPayload}

\* What JSON.parse yields for an envelope that lacks a field: undefined, which
\* is falsy like 0 for the two ids, and matches no case as a type.
Undefined == [undefined |-> TRUE]

\* The envelopes of kinds `kinds` with one of the four required fields missing.
Garbled(c, kinds, sess) ==
  LET whole == UNION {[type : {t}, sessionId : sess, userId : ClaimedIds[c],
                       payload : {NoPayload}] : t \in kinds}
  IN UNION {{[m EXCEPT !.type = "undefined"], [m EXCEPT !.sessionId = 0],
             [m EXCEPT !.userId = 0], [m EXCEPT !.payload = Undefined]} : m \in whole}

WebSocketMessage(c, kinds, sess) ==
  UNION {[type : {t}, sessionId : sess, userId : ClaimedIds[c], payload : PayloadsOf(t)]
         : t \in kinds}

VARIABLES
  readyState,        \* ws.readyState of each connection
  userId,            \* closure variable userId of each connection, 0 = null
  sessionId,         \* closure variable sessionId of each connection, 0 = null
  connectedClients,  \* Map<number, WebSocket>: a function on the keys present
  sessionClients,    \* Map<number, Set<number>>: a function on the keys present
  closePc,           \* where the close handler of each connection stands
  awaiting,          \* message handlers of each connection suspended on a storage call
  calls,             \* bag of the storage calls invoked so far
  inbox,             \* what each socket was sent, in order
  nmsgs,             \* number of messages received so far, over all connections
  rejects,           \* number of rejected storage calls of close handlers so far
  hist,              \* per connection: sessions named in its joins and leaves, last of them
  files,             \* MemStorage.files: the content of each file record, by id
  fileIdCounter,     \* MemStorage.fileIdCounter
  jobs,              \* continuations of storage calls waiting to run, in order
  edits,             \* per file: the code-change events that found it, in order of arrival
  client,            \* the fields of the browser's WebSocketClient
  sockets,           \* readyState of each WebSocket the client has created, in order
  timers,            \* the reconnect timeouts that are pending
  sent,              \* what the client has sent, in order, with the socket it went to
  app                \* what the page asked of the client last, and the socket it got

\* the state of MemStorage
store == <<files, fileIdCounter, jobs, edits>>

\* the state of the relay
relay == <<readyState, userId, sessionId, connectedClients, sessionClients,
           closePc, awaiting, calls, inbox, nmsgs, rejects, hist>>

\* the state of the page's WebSocketClient and of the browser around it
browser == <<client, sockets, timers, sent, app>>

vars == <<readyState, userId, sessionId, connectedClients, sessionClients,
          closePc, awaiting, calls, inbox, nmsgs, rejects, hist, files, fileIdCounter,
          jobs, edits, client, sockets, timers, sent, app>>

\* ------------------------------------------------------------- the maps
\* sessionClients.get(s), the empty set standing for undefined where only
\* iteration or membership is asked
members(sc, s) == IF s \in DOMAIN sc THEN sc[s] ELSE {}

\* a join that, for an id already present, starts the set over with that id
JoinSet_Restart(sc, s, u) ==
  [k \in DOMAIN sc \cup {s} |->
     IF k # s THEN sc[k] ELSE IF u \in members(sc, s) THEN {u} ELSE members(sc, s) \cup {u}]

\* if (!sessionClients.has(s)) sessionClients.set(s, new Set()); get(s)?.add(u)
JoinSet(sc, s, u) == [k \in DOMAIN sc \cup {s} |-> IF k = s THEN members(sc, s) \cup {u} ELSE sc[k]]

\* a leave that empties the whole set instead of deleting one id
LeaveSet_Clear(sc, s, u) == [k \in DOMAIN sc |-> IF k = s THEN {} ELSE sc[k]]

\* sessionClients.get(s)?.delete(u)
LeaveSet(sc, s, u) == [k \in DOMAIN sc |-> IF k = s THEN sc[k] \ {u} ELSE sc[k]]

\* a registry that keeps the socket a participant registered first
Register_KeepFirst(cc, u, c) ==
  [k \in DOMAIN cc \cup {u} |-> IF k \in DOMAIN cc THEN cc[k] ELSE c]

\* connectedClients.set(u, ws)
Register(cc, u, c) == [k \in DOMAIN cc \cup {u} |-> IF k = u THEN c ELSE cc[k]]

\* a close handler that leaves the registry entry in place
Unregister_Keep(cc, u) == cc

\* connectedClients.delete(u)
Unregister(cc, u) == [k \in DOMAIN cc \ {u} |-> cc[k]]

\* a send loop that stops at the first member it cannot send to
Targets_UntilStale(rs, cc, ids) ==
  IF \E u \in ids : u \notin DOMAIN cc \/ rs[cc[u]] # "OPEN"
  THEN {}
  ELSE ids

\* a send loop that does not look at readyState
Targets_AnyState(rs, cc, ids) == {u \in ids : u \in DOMAIN cc}

\* the targets of a send loop over the member ids `ids`:
\* clientWs = connectedClients.get(clientId); clientWs && readyState === OPEN
Targets(rs, cc, ids) == {u \in ids : u \in DOMAIN cc /\ rs[cc[u]] = "OPEN"}

\* a send that puts the item ahead of what the socket was sent before
Times_Front(q, item, k) == IF k = 0 THEN q ELSE <<item>> \o q

RECURSIVE Times(_, _, _)
Times(q, item, k) == IF k = 0 THEN q ELSE Times(Append(q, item), item, k - 1)

\* clientWs.send(item), once for every target id: how the inboxes grow
Deliver(ib, rs, cc, ids, item) ==
  [r \in Conns |-> Times(ib[r], item, Cardinality({u \in Targets(rs, cc, ids) : cc[u] = r}))]

\* one more invocation of a storage method
Call(b, op, args) == b (+) SetToBag({<<op, args>>})
Count(b, op, args) == CopiesIn(<<op, args>>, b)

\* ------------------------------------------------------------- the state
\* The state once the server has accepted the connections of Conns (lines
\* 28-31 ran for each: userId = null, sessionId = null) and before any of
\* them has sent a message.
NoHist == [sent |-> FALSE, joined |-> {}, left |-> {}, last |-> "none"]

Init ==
  /\ readyState = [c \in Conns |-> "OPEN"]
  /\ userId = [c \in Conns |-> 0]
  /\ sessionId = [c \in Conns |-> 0]
  /\ connectedClients = <<>>
  /\ sessionClients = <<>>
  /\ closePc = [c \in Conns |-> "open"]
  /\ awaiting = [c \in Conns |-> 0]
  /\ calls = EmptyBag
  /\ inbox = [c \in Conns |-> <<>>]
  /\ nmsgs = 0
  /\ rejects = 0
  /\ hist = [c \in Conns |-> NoHist]
  /\ files = <<>>
  /\ fileIdCounter = 1
  /\ jobs = <<>>
  /\ edits = <<>>
  /\ client = [socket |-> 0, reconnectTimer |-> 0, userId |-> 0, sessionId |-> 0,
               isConnected |-> FALSE]
  /\ sockets = <<>>
  /\ timers = {}
  /\ sent = <<>>
  /\ app = [connect |-> FALSE, join |-> 0, socket |-> 0]

\* ---------------------------------------------------- ws.on('message')
\* a handler that takes the id of every message
BoundId_Latest(c, data) == data.userId

\* if (!userId) userId = data.userId
BoundId(c, data) == IF userId[c] = 0 THEN data.userId ELSE userId[c]

\* sessionId after the SESSION_JOIN branch
BoundSession(c, data) == IF data.type = "session-join" THEN data.sessionId ELSE sessionId[c]

\* the maps after the SESSION_JOIN branch
JoinedClients(c, data) ==
  IF data.type = "session-join"
  THEN JoinSet(sessionClients, data.sessionId, BoundId(c, data))
  ELSE sessionClients

JoinedRegistry(c, data) ==
  IF data.type = "session-join"
  THEN Register(connectedClients, BoundId(c, data), c)
  ELSE connectedClients

\* a broadcast loop without its `continue` for the sender
BroadcastIds_NoSkip(c, data) ==
  LET sid == BoundSession(c, data)
  IN IF sid # 0 /\ sid \in DOMAIN JoinedClients(c, data)
     THEN JoinedClients(c, data)[sid]
     ELSE {}

\* the ids the broadcast loop goes over: the members of the remembered
\* session, the sender skipped
BroadcastIds(c, data) ==
  LET sid == BoundSession(c, data)
  IN IF sid # 0 /\ sid \in DOMAIN JoinedClients(c, data)
     THEN JoinedClients(c, data)[sid] \ {BoundId(c, data)}
     ELSE {}

\* what is sent for an inbound message: JSON.stringify(data), tagged with
\* the connection it came from and its position in the order of arrival
Relayed(c, data) == [msg |-> data, from |-> c, n |-> nmsgs + 1]

\* a switch whose CODE_CHANGE case passes the session id for the file id
StorageCall_WrongFile(c, data) ==
  IF data.type = "code-change" /\ data.payload.fileId # 0
  THEN <<"updateFile", <<data.sessionId, data.payload.content>>>>
  ELSE <<>>

\* the switch: the storage call the handler invokes, <<>> when none
StorageCall(c, data) ==
  LET sid == BoundSession(c, data)
      uid == BoundId(c, data)
  IN IF data.type = "code-change"
     THEN IF data.payload # Undefined /\ data.payload.fileId # 0   \* TypeError: caught
          THEN <<"updateFile", <<data.payload.fileId, data.payload.content>>>>
          ELSE <<>>
     ELSE IF data.type = "file-create"
     THEN IF sid # 0 /\ data.payload # Undefined                   \* TypeError: caught
          THEN <<"createFile", <<sid, data.payload.name,
                                 IF data.payload.content = "" THEN "" ELSE data.payload.content,
                                 IF data.payload.language = "" THEN "javascript"
                                 ELSE data.payload.language>>>>
          ELSE <<>>
     ELSE IF data.type = "session-leave"
     THEN IF sid # 0 /\ uid # 0 /\ sid \in DOMAIN JoinedClients(c, data)
             /\ LeaveSet(JoinedClients(c, data), sid, uid)[sid] = {}
          THEN <<"endSession", <<sid>>>>
          ELSE <<>>
     ELSE <<>>

\* the membership after the switch
LeftClients(c, data) ==
  IF data.type = "session-leave" /\ BoundSession(c, data) # 0 /\ BoundId(c, data) # 0
  THEN LeaveSet(JoinedClients(c, data), BoundSession(c, data), BoundId(c, data))
  ELSE JoinedClients(c, data)

\* what the connection has sent so far: anything at all, the sessions its
\* session-join and session-leave envelopes named, the later of the two kinds
NextHist(h, data) ==
  IF data.type = "session-join"
  THEN [h EXCEPT !.sent = TRUE, !.joined = @ \cup {data.sessionId}, !.last = "join"]
  ELSE IF data.type = "session-leave"
  THEN [h EXCEPT !.sent = TRUE, !.left = @ \cup {data.sessionId}, !.last = "leave"]
  ELSE [h EXCEPT !.sent = TRUE]

OnMessage(c, data) ==
  /\ readyState[c] = "OPEN"
  /\ nmsgs' = nmsgs + 1
  /\ hist' = [hist EXCEPT ![c] = NextHist(@, data)]
  /\ userId' = [userId EXCEPT ![c] = BoundId(c, data)]
  /\ sessionId' = [sessionId EXCEPT ![c] = BoundSession(c, data)]
  /\ connectedClients' = JoinedRegistry(c, data)
  /\ inbox' = Deliver(inbox, readyState, JoinedRegistry(c, data), BroadcastIds(c, data),
                      Relayed(c, data))
  /\ sessionClients' = LeftClients(c, data)
  /\ LET call == StorageCall(c, data)
     IN IF call = <<>>
        THEN UNCHANGED <<calls, awaiting>>
        ELSE /\ calls' = Call(calls, call[1], call[2])
             /\ awaiting' = [awaiting EXCEPT ![c] = @ + 1]
  /\ UNCHANGED <<readyState, closePc, rejects>>

\* a message that JSON.parse rejects: the catch of lines 101-103 logs it
OnUnparseable(c) ==
  /\ readyState[c] = "OPEN"
  /\ nmsgs' = nmsgs + 1
  /\ UNCHANGED <<readyState, userId, sessionId, connectedClients, sessionClients,
                 closePc, awaiting, calls, inbox, rejects, hist>>

\* a handler that gives up its socket when its storage call has failed
StorageSettles_Terminate(c) ==
  /\ awaiting[c] > 0
  /\ awaiting' = [awaiting EXCEPT ![c] = @ - 1]
  /\ readyState' = [readyState EXCEPT ![c] = "CLOSING"]
  /\ UNCHANGED <<userId, sessionId, connectedClients, sessionClients,
                 closePc, calls, inbox, nmsgs, rejects, hist>>

\* a storage call awaited by a message handler settles; a rejection is
\* caught and logged (lines 101-103), either way the handler ends
StorageSettles(c) ==
  /\ awaiting[c] > 0
  /\ awaiting' = [awaiting EXCEPT ![c] = @ - 1]
  /\ UNCHANGED <<readyState, userId, sessionId, connectedClients, sessionClients,
                 closePc, calls, inbox, nmsgs, rejects, hist>>

\* ------------------------------------------------------ ws.on('close')
\* the socket enters the closing handshake: readyState is no longer OPEN,
\* the 'close' event has not been emitted yet.  readyState is read through
\* the registry alone, so the step is taken for registered sockets only.
PeerClosing(c) ==
  /\ readyState[c] = "OPEN"
  /\ \E u \in DOMAIN connectedClients : connectedClients[u] = c
  /\ readyState' = [readyState EXCEPT ![c] = "CLOSING"]
  /\ UNCHANGED <<userId, sessionId, connectedClients, sessionClients, closePc,
                 awaiting, calls, inbox, nmsgs, rejects, hist>>

\* the 'close' event: lines 106-114, up to the await on storage.getUser
OnClose(c) ==
  /\ closePc[c] = "open"
  /\ readyState' = [readyState EXCEPT ![c] = "CLOSED"]
  /\ IF userId[c] # 0
     THEN /\ connectedClients' = Unregister(connectedClients, userId[c])
          /\ calls' = Call(calls, "getUser", <<userId[c]>>)
          /\ closePc' = [closePc EXCEPT ![c] = "getUser"]
     ELSE /\ closePc' = [closePc EXCEPT ![c] = "done"]
          /\ UNCHANGED <<connectedClients, calls>>
  /\ UNCHANGED <<userId, sessionId, sessionClients, awaiting, inbox, nmsgs, rejects, hist>>

\* the envelope the close handler synthesizes (lines 126-131)
leaveMsg(c) == [type |-> "session-leave", sessionId |-> sessionId[c], userId |-> userId[c],
                payload |-> NoPayload]

\* a close handler without the delete of line 121
ClosedClients_Keep(c) == sessionClients

\* the membership after line 121
ClosedClients(c) ==
  IF sessionId[c] # 0 THEN LeaveSet(sessionClients, sessionId[c], userId[c]) ELSE sessionClients

\* the ids the loop of lines 133-138 goes over
CloseIds(c) == IF sessionId[c] # 0 THEN members(ClosedClients(c), sessionId[c]) ELSE {}

\* a close handler that never ends a session
CloseEndsSession_Never(c) == FALSE

\* if (sessionUsers.size === 0), sessionUsers being defined
CloseEndsSession(c) ==
  /\ sessionId[c] # 0
  /\ sessionId[c] \in DOMAIN ClosedClients(c)
  /\ ClosedClients(c)[sessionId[c]] = {}

\* lines 119-145, up to the await on storage.endSession
RemoveFromSession(c) ==
  /\ sessionClients' = ClosedClients(c)
  /\ inbox' = Deliver(inbox, readyState, connectedClients, CloseIds(c),
                      [msg |-> leaveMsg(c), from |-> c, n |-> 0])
  /\ IF CloseEndsSession(c)
     THEN /\ calls' = Call(calls, "endSession", <<sessionId[c]>>)
          /\ closePc' = [closePc EXCEPT ![c] = "endSession"]
     ELSE /\ calls' = calls
          /\ closePc' = [closePc EXCEPT ![c] = "done"]

\* storage.getUser resolved: lines 115-117, then, with no user record,
\* straight on to lines 119-145
GetUserResolves(c) ==
  /\ closePc[c] = "getUser"
  /\ IF userId[c] \in StoredUsers
     THEN /\ calls' = Call(calls, "updateUser", <<userId[c]>>)
          /\ closePc' = [closePc EXCEPT ![c] = "updateUser"]
          /\ UNCHANGED <<sessionClients, inbox>>
     ELSE RemoveFromSession(c)
  /\ UNCHANGED <<readyState, userId, sessionId, connectedClients, awaiting, nmsgs, rejects, hist>>

\* storage.updateUser resolved: lines 119-145
UpdateUserResolves(c) ==
  /\ closePc[c] = "updateUser"
  /\ RemoveFromSession(c)
  /\ UNCHANGED <<readyState, userId, sessionId, connectedClients, awaiting, nmsgs, rejects, hist>>

\* storage.endSession resolved: the handler returns
EndSessionResolves(c) ==
  /\ closePc[c] = "endSession"
  /\ closePc' = [closePc EXCEPT ![c] = "done"]
  /\ UNCHANGED <<readyState, userId, sessionId, connectedClients, sessionClients,
                 awaiting, calls, inbox, nmsgs, rejects, hist>>

\* an awaited storage call of the close handler rejects: the handler has
\* no try/catch, its remaining statements never run
CloseRejects(c) ==
  /\ closePc[c] \in {"getUser", "updateUser", "endSession"}
  /\ rejects < MaxRejects
  /\ rejects' = rejects + 1
  /\ closePc' = [closePc EXCEPT ![c] = "failed"]
  /\ UNCHANGED <<readyState, userId, sessionId, connectedClients, sessionClients,
                 awaiting, calls, inbox, nmsgs, hist>>

\* The rejected promise of a close handler has no handler of its own: Node
\* reports it as an unhandled rejection, which by default ends the process
\* and in the warning mode is logged.  All sockets go with the process.
ProcessExits ==
  /\ \E c \in Conns : closePc[c] = "failed"
  /\ readyState' = [c \in Conns |-> "CLOSED"]
  /\ closePc' = [c \in Conns |-> "exited"]
  /\ awaiting' = [c \in Conns |-> 0]
  /\ UNCHANGED <<userId, sessionId, connectedClients, sessionClients,
                 calls, inbox, nmsgs, rejects, hist>>

Step(conns, kinds, sess, max) ==
  \/ /\ nmsgs < max
     /\ \E c \in conns : \E data \in WebSocketMessage(c, kinds, sess) : OnMessage(c, data) /\ UNCHANGED <<store, browser>>
  \/ \E c \in conns : StorageSettles(c) /\ UNCHANGED <<store, browser>>
  \/ \E c \in conns : PeerClosing(c) /\ UNCHANGED <<store, browser>>
  \/ \E c \in conns : OnClose(c) /\ UNCHANGED <<store, browser>>
  \/ \E c \in conns : GetUserResolves(c) /\ UNCHANGED <<store, browser>>
  \/ \E c \in conns : UpdateUserResolves(c) /\ UNCHANGED <<store, browser>>
  \/ \E c \in conns : EndSessionResolves(c) /\ UNCHANGED <<store, browser>>

\* The relay over a storage whose methods never reject and take any time to
\* settle: the handlers of all connections interleave at their awaits.
Next == Step(Conns, RelayKinds, Sessions, MaxMsgs)

Spec == Init /\ [][Next]_vars

\* The relay over a storage whose calls may reject.
NextFaulty ==
  \/ Next
  \/ \E c \in Conns : CloseRejects(c) /\ UNCHANGED <<store, browser>>
  \/ ProcessExits /\ UNCHANGED <<store, browser>>

SpecFaulty == Init /\ [][NextFaulty]_vars

\* The relay under two clients that edit and create files in session 1.
NextFiles == Step({"c1", "c2"}, FileKinds, {1}, MaxFileMsgs)

SpecFiles == Init /\ [][NextFiles]_vars

\* A handler of connection c is suspended at an await.
InFlight(c) == awaiting[c] > 0 \/ closePc[c] \in {"getUser", "updateUser", "endSession"}

\* The scheduling of the relay over MemStorage.  Its methods are async
\* functions that do no I/O: the promise of a call is settled when the call
\* returns, and Node runs the continuations of settled promises before it
\* dispatches the next socket event.  So an event of a connection is taken up
\* only when no handler of another connection is suspended.
TurnEnds(conns) ==
  \/ \E c \in conns : StorageSettles(c) /\ UNCHANGED <<store, browser>>
  \/ \E c \in conns : (\A o \in Conns \ {c} : ~InFlight(o)) /\ PeerClosing(c) /\ UNCHANGED <<store, browser>>
  \/ \E c \in conns : (\A o \in Conns \ {c} : ~InFlight(o)) /\ OnClose(c) /\ UNCHANGED <<store, browser>>
  \/ \E c \in conns : GetUserResolves(c) /\ UNCHANGED <<store, browser>>
  \/ \E c \in conns : UpdateUserResolves(c) /\ UNCHANGED <<store, browser>>
  \/ \E c \in conns : EndSessionResolves(c) /\ UNCHANGED <<store, browser>>

\* a scheduling that takes events up while handlers are suspended
Turn_Interleaved(conns, kinds, sess, max) == Step(conns, kinds, sess, max)

Turn(conns, kinds, sess, max) ==
  \/ /\ nmsgs < max
     /\ \E c \in conns :
          /\ \A o \in Conns \ {c} : ~InFlight(o)
          /\ \E data \in WebSocketMessage(c, kinds, sess) : OnMessage(c, data) /\ UNCHANGED <<store, browser>>
  \/ TurnEnds(conns)

NextTurns == Turn(Conns, RelayKinds, {1}, MaxMsgs)

SpecTurns == Init /\ [][NextTurns]_vars

\* The relay under three clients: one joins session 1 and creates files, one
\* joins session 1, one joins either session as participant 3.
SkipMessages(c) ==
  IF c = "c1" THEN WebSocketMessage(c, {"session-join", "file-create"}, {1})
  ELSE IF c = "c2" THEN WebSocketMessage(c, {"session-join"}, {1})
  ELSE {m \in WebSocketMessage(c, {"session-join"}, Sessions) : m.userId = 3}

NextSkips ==
  \/ /\ nmsgs < MaxSkipMsgs
     /\ \E c \in Conns :
          /\ \A o \in Conns \ {c} : ~InFlight(o)
          /\ \E data \in SkipMessages(c) : OnMessage(c, data) /\ UNCHANGED <<store, browser>>
  \/ TurnEnds(Conns)

SpecSkips == Init /\ [][NextSkips]_vars

\* The relay under two clients whose events have storage side effects.
EffectKinds == {"session-join", "session-leave", "code-change", "file-create"}

NextEffects == Step({"c1", "c2"}, EffectKinds, {1}, MaxFileMsgs)

SpecEffects == Init /\ [][NextEffects]_vars

\* ------------------------------------------------- MemStorage.files
\* this.files.set(id, file)
FilesSet(fs, id, content) == [k \in DOMAIN fs \cup {id} |-> IF k = id THEN content ELSE fs[k]]

\* the code-change envelopes for the files created so far and the next one
Edits(c) ==
  [type : {"code-change"}, sessionId : {1}, userId : ClaimedIds[c],
   payload : {[NoPayload EXCEPT !.fileId = f, !.content = x] :
                f \in 1..fileIdCounter, x \in {"x=1", "x=2"}}]

\* The part of a storage call that runs before the call returns its promise:
\* createFile sets the record (lines 381-392); updateFile calls getFile,
\* which reads the record, and suspends at its await (lines 394-396, 405).
\* What is left of the call is queued behind the continuations queued before.
StorageBegins(c, data) ==
  LET call == StorageCall(c, data)
      job == [conn |-> c, op |-> "none", id |-> 0, file |-> FALSE, content |-> ""]
  IN IF call = <<>>
     THEN UNCHANGED store
     ELSE IF call[1] = "updateFile"
     THEN /\ jobs' = Append(jobs, [job EXCEPT !.op = "updateFile", !.id = call[2][1],
                                              !.file = call[2][1] \in DOMAIN files,
                                              !.content = call[2][2]])
          /\ edits' = IF call[2][1] \in DOMAIN files
                      THEN FilesSet(edits, call[2][1],
                                    Append(IF call[2][1] \in DOMAIN edits
                                           THEN edits[call[2][1]] ELSE <<>>,
                                           [from |-> c, content |-> call[2][2]]))
                      ELSE edits
          /\ UNCHANGED <<files, fileIdCounter>>
     ELSE IF call[1] = "createFile"
     THEN /\ files' = FilesSet(files, fileIdCounter, call[2][3])
          /\ fileIdCounter' = fileIdCounter + 1
          /\ jobs' = Append(jobs, [job EXCEPT !.op = "createFile"])
          /\ UNCHANGED edits
     ELSE /\ jobs' = Append(jobs, [job EXCEPT !.op = call[1]])
          /\ UNCHANGED <<files, fileIdCounter, edits>>

\* a scheduler that runs the continuation queued last
NextJob_Last(q) == Len(q)

\* the continuation Node runs next: the one queued first
NextJob(q) == 1

\* The continuation of a storage call runs: updateFile gives up when getFile
\* found no record, and sets the record otherwise (lines 406-414).  Then
\* the handler that awaited the call ends.
StorageContinues ==
  /\ jobs # <<>>
  /\ LET i == NextJob(jobs)
         job == jobs[i]
     IN /\ files' = IF job.op = "updateFile" /\ job.file
                    THEN FilesSet(files, job.id, job.content)
                    ELSE files
        /\ jobs' = SubSeq(jobs, 1, i - 1) \o SubSeq(jobs, i + 1, Len(jobs))
        /\ StorageSettles(job.conn)
  /\ UNCHANGED <<fileIdCounter, edits>>

\* The relay and MemStorage under two clients that create and edit files.
\* A socket event is taken up when no handler of another connection is
\* suspended (see Turn).
NextStore ==
  \/ /\ nmsgs < MaxEdits
     /\ \E c \in {"c1", "c2"} :
          /\ \A o \in Conns \ {c} : ~InFlight(o)
          /\ \E data \in WebSocketMessage(c, {"session-join", "file-create"}, {1}) \cup Edits(c) :
               OnMessage(c, data) /\ StorageBegins(c, data) /\ UNCHANGED browser
  \/ StorageContinues /\ UNCHANGED browser

SpecStore == Init /\ [][NextStore]_vars

\* The relay under two clients that also send unparseable messages and
\* envelopes with a field missing.
NextMalformed ==
  \/ Step({"c1", "c2"}, {"session-join", "chat-message"}, {1}, MaxBadMsgs)
  \/ /\ nmsgs < MaxBadMsgs
     /\ \E c \in {"c1", "c2"} : OnUnparseable(c) /\ UNCHANGED <<store, browser>>
  \/ /\ nmsgs < MaxBadMsgs
     /\ \E c \in {"c1", "c2"} :
          \E data \in Garbled(c, {"session-join", "chat-message", "file-create"}, {1}) :
            OnMessage(c, data) /\ UNCHANGED <<store, browser>>

SpecMalformed == Init /\ [][NextMalformed]_vars

\* ------------------------------------------- the page's WebSocketClient
\* src/client/src/lib/websocket.ts.  null is 0; a socket is named by its
\* index in sockets, a timeout by the socket whose close event set it.

\* the client never creates more sockets than this
MaxSockets == 3

\* the user and the sessions the page mounts with
PageUsers == {1}
PageSessions == {1, 2}

\* what the methods of the client read and write
World == [client |-> client, sockets |-> sockets, timers |-> timers, sent |-> sent]

\* WebSocket.close(): nothing on a socket that is closing or closed
close(socks, s) ==
  IF socks[s] \in {"CONNECTING", "OPEN"} THEN [socks EXCEPT ![s] = "CLOSING"] ELSE socks

\* disconnect()
disconnect(w) ==
  [w EXCEPT !.sockets = IF w.client.socket # 0 THEN close(@, w.client.socket) ELSE @,
            !.timers = @ \ {w.client.reconnectTimer},
            !.client = [@ EXCEPT !.socket = 0, !.reconnectTimer = 0,
                                 !.isConnected = FALSE]]

\* connect(userId), the listeners apart
connect(w, u) ==
  LET d == IF w.client.socket # 0 THEN disconnect(w) ELSE w
  IN  [d EXCEPT !.sockets = Append(@, "CONNECTING"),
                !.client = [@ EXCEPT !.userId = u, !.socket = Len(d.sockets) + 1]]

\* sendMessage(message)
sendMessage(w, message) ==
  IF w.client.socket = 0 \/ w.sockets[w.client.socket] # "OPEN"
  THEN w
  ELSE [w EXCEPT !.sent = Append(@, [socket |-> w.client.socket, message |-> message])]

\* joinSession(sessionId)
joinSession(w, sid) ==
  IF ~w.client.isConnected \/ w.client.userId = 0
  THEN w
  ELSE sendMessage([w EXCEPT !.client.sessionId = sid],
                   [type |-> "session-join", sessionId |-> sid,
                    userId |-> w.client.userId])

\* leaveSession()
leaveSession(w) ==
  IF ~w.client.isConnected \/ w.client.userId = 0 \/ w.client.sessionId = 0
  THEN w
  ELSE [sendMessage(w, [type |-> "session-leave", sessionId |-> w.client.sessionId,
                        userId |-> w.client.userId])
          EXCEPT !.client.sessionId = 0]

\* the client and the browser become w
Becomes(w) ==
  /\ client' = w.client
  /\ sockets' = w.sockets
  /\ timers' = w.timers
  /\ sent' = w.sent

\* the session page's effect runs for (user, sessionId): the cleanup of the
\* effect before it, then connect and joinSession in one task
Mount(u, sid) ==
  /\ Len(sockets) < MaxSockets
  /\ app.join # sid
  /\ Becomes(joinSession(connect(IF app.join # 0 THEN leaveSession(World) ELSE World, u),
                         sid))
  /\ app' = [connect |-> TRUE, join |-> sid, socket |-> client'.socket]

\* the session page goes away: the effect's cleanup
Unmount ==
  /\ app.join # 0
  /\ Becomes(leaveSession(World))
  /\ app' = [app EXCEPT !.join = 0, !.socket = 0]

\* a caller of the exported client disconnects
Disconnect ==
  /\ Becomes(disconnect(World))
  /\ app' = [app EXCEPT !.connect = FALSE]

\* the "open" listener of socket s
SocketOpens(s) ==
  /\ sockets[s] = "CONNECTING"
  /\ sockets' = [sockets EXCEPT ![s] = "OPEN"]
  /\ client' = [client EXCEPT !.isConnected = TRUE, !.reconnectTimer = 0]
  /\ timers' = timers \ {client.reconnectTimer}
  /\ UNCHANGED <<sent, app>>

\* the "close" listener of socket s
OnCloseEvent(s) ==
  /\ sockets' = [sockets EXCEPT ![s] = "CLOSED"]
  /\ client' = [client EXCEPT !.isConnected = FALSE, !.reconnectTimer = s]
  /\ timers' = timers \cup {s}
  /\ UNCHANGED <<sent, app>>

\* the close event of a socket that close() was called on
CloseEvent(s) ==
  /\ sockets[s] = "CLOSING"
  /\ OnCloseEvent(s)

\* the server or the network ends the connection of socket s
ConnectionLost(s) ==
  /\ sockets[s] \in {"CONNECTING", "OPEN"}
  /\ OnCloseEvent(s)

\* the reconnect timeout t runs
TimerFires(t) ==
  /\ t \in timers
  /\ Len(sockets) < MaxSockets
  /\ LET w == [World EXCEPT !.timers = @ \ {t}]
     IN  Becomes(IF w.client.userId # 0 THEN connect(w, w.client.userId) ELSE w)
  /\ UNCHANGED app

NextClient ==
  \/ \E u \in PageUsers : \E sid \in PageSessions : Mount(u, sid) /\ UNCHANGED <<relay, store>>
  \/ Unmount /\ UNCHANGED <<relay, store>>
  \/ Disconnect /\ UNCHANGED <<relay, store>>
  \/ \E s \in DOMAIN sockets : SocketOpens(s) /\ UNCHANGED <<relay, store>>
  \/ \E s \in DOMAIN sockets : CloseEvent(s) /\ UNCHANGED <<relay, store>>
  \/ \E s \in DOMAIN sockets : ConnectionLost(s) /\ UNCHANGED <<relay, store>>
  \/ \E t \in timers : TimerFires(t) /\ UNCHANGED <<relay, store>>

\* the browser delivers the events it has queued: a connecting socket that is
\* not lost opens, a socket that close() was called on gets its close event,
\* a timeout that is not cleared runs
Delivered ==
  /\ WF_browser(\E s \in DOMAIN sockets : SocketOpens(s))
  /\ WF_browser(\E s \in DOMAIN sockets : CloseEvent(s))
  /\ WF_browser(\E t \in timers : TimerFires(t))

SpecClient == Init /\ [][NextClient]_vars /\ Delivered

\* ======================================================================
\* The claims
\* ======================================================================
Registered(c) == \E u \in DOMAIN connectedClients : connectedClients[u] = c

\* C1 (as claimed): storage.endSession(S) is invoked exactly once when the
\* membership set of S becomes empty, at no other step, and never a second
\* time for the same S.
C1_EndSessionExactlyOnce ==
  [][\A s \in Sessions :
       /\ Count(calls', "endSession", <<s>>) - Count(calls, "endSession", <<s>>)
            = IF members(sessionClients, s) # {} /\ members(sessionClients', s) = {}
              THEN 1 ELSE 0
       /\ Count(calls', "endSession", <<s>>) <= 1]_vars

\* C2: with one connection per participant, all joins and leaves naming the
\* one session S and no connection closed, the membership set of S is exactly
\* the set of participants whose latest join/leave event is a join.
C2_Scope(S) ==
  /\ \A c \in Conns : closePc[c] = "open" /\ hist[c].joined \cup hist[c].left \subseteq {S}
  /\ \A c, d \in Conns :
       (c # d /\ hist[c].last # "none" /\ hist[d].last # "none") => userId[c] # userId[d]

C2_MembersAreLatestJoiners ==
  \A S \in Sessions :
    C2_Scope(S) =>
      members(sessionClients, S) = {userId[c] : c \in {d \in Conns : hist[d].last = "join"}}

\* C2 witness: in scope, one participant has joined S and left it again
\* while another is joined.
C2_Witness ==
  \E S \in Sessions : \E c, d \in Conns :
    /\ C2_Scope(S)
    /\ hist[c].last = "leave" /\ S \in hist[c].joined
    /\ hist[d].last = "join"

\* The sockets the claims expect an event of session S from participant P
\* to reach, in the state after its handler's synchronous part: the
\* registered, open sockets of the other members of S.
ExpectedReceivers(S, P) ==
  {connectedClients'[q] : q \in {m \in members(sessionClients', S) \ {P} :
                                   /\ m \in DOMAIN connectedClients'
                                   /\ readyState'[connectedClients'[m]] = "OPEN"}}

\* the participant a connection speaks for: the userId of its first message
Participant(c, data) == IF userId[c] = 0 THEN data.userId ELSE userId[c]

\* the connection c is joined to the session its event names, or joins it
SendsAsMember(c, data) ==
  \/ data.type = "session-join"
  \/ /\ sessionId[c] = data.sessionId
     /\ Participant(c, data) \in members(sessionClients, data.sessionId)

\* every socket of `to` got exactly the envelope `data` appended once, no
\* other socket got anything
DeliveredOnceTo(to, data) ==
  \A r \in Conns :
    IF r \in to
    THEN /\ Len(inbox'[r]) = Len(inbox[r]) + 1
         /\ SubSeq(inbox'[r], 1, Len(inbox[r])) = inbox[r]
         /\ inbox'[r][Len(inbox'[r])].msg = data
    ELSE inbox'[r] = inbox[r]

\* C3: an event sent by a member P of session S is delivered exactly once
\* to each other member of S whose connection is registered and open, and
\* to no other connection.
C3_BroadcastToOtherMembers ==
  [][nmsgs' # nmsgs =>
       \A c \in Conns : \A data \in WebSocketMessage(c, RelayKinds, Sessions) :
         (SendsAsMember(c, data) /\ OnMessage(c, data))
           => DeliveredOnceTo(ExpectedReceivers(data.sessionId, Participant(c, data)), data)]_vars

\* C3 witness: three participants are joined to one session and the other
\* two have both been sent the third one's event.
C3_Witness ==
  \E S \in Sessions : \E c \in Conns :
    /\ Cardinality(members(sessionClients, S)) = 3
    /\ \A r \in Conns \ {c} :
         /\ Registered(r)
         /\ \E i \in 1..Len(inbox[r]) : inbox[r][i].from = c /\ inbox[r][i].msg.sessionId = S
    /\ inbox[c] = <<>>

\* C4: nothing a socket is sent originates from a connection bound to the
\* same participant as the socket, be it a relayed event or the
\* session-leave synthesized on close.
C4_NeverBackToSender ==
  \A r \in Conns : \A i \in 1..Len(inbox[r]) :
    /\ inbox[r][i].from # r
    /\ userId[inbox[r][i].from] # userId[r]

\* C4 witness: a participant with two connections in a session; one of them
\* relayed an event and the other closed, both reaching a third socket.
C4_Witness ==
  \E r, c, d \in Conns :
    /\ c # d /\ userId[c] = userId[d] /\ userId[c] # 0
    /\ hist[c].joined # {} /\ hist[d].joined # {}
    /\ \E i, j \in 1..Len(inbox[r]) :
         /\ inbox[r][i].from = c /\ inbox[r][i].n > 0
         /\ inbox[r][j].from = d /\ inbox[r][j].n = 0

\* C5: a session-join from a participant that is already in the membership
\* set of that session leaves every membership set as it was.
C5_JoinIdempotent ==
  [][nmsgs' # nmsgs =>
       \A c \in Conns : \A data \in WebSocketMessage(c, {"session-join"}, Sessions) :
         (/\ Participant(c, data) \in members(sessionClients, data.sessionId)
          /\ OnMessage(c, data))
           => sessionClients' = sessionClients]_vars

\* C5 witness: a member of a session has been sent the same connection's
\* session-join for that session twice in a row.
C5_Witness ==
  \E r \in Conns : \E i \in 1..Len(inbox[r]) - 1 :
    /\ inbox[r][i].msg.type = "session-join"
    /\ inbox[r][i + 1].msg.type = "session-join"
    /\ inbox[r][i + 1].msg.sessionId = inbox[r][i].msg.sessionId
    /\ inbox[r][i + 1].from = inbox[r][i].from
    /\ inbox[r][i + 1].n = inbox[r][i].n + 1
    /\ Cardinality(members(sessionClients, inbox[r][i].msg.sessionId)) = 2

\* C6: events that arrived on one connection reach every other socket in
\* their order of arrival.
C6_PerConnectionOrder ==
  \A r \in Conns : \A i, j \in 1..Len(inbox[r]) :
    (/\ i < j
     /\ inbox[r][i].from = inbox[r][j].from
     /\ inbox[r][i].n > 0 /\ inbox[r][j].n > 0)
      => inbox[r][i].n < inbox[r][j].n

\* C6 witness: a socket was sent a code-change and then a chat-message of
\* one connection, and the handler of the code-change - the only message
\* handler of the run that called storage - is still awaiting updateFile.
C6_Witness ==
  \E c, r \in Conns : \E i \in 1..Len(inbox[r]) - 1 :
    /\ inbox[r][i].from = c /\ inbox[r][i + 1].from = c
    /\ inbox[r][i].msg.type = "code-change" /\ inbox[r][i].msg.payload.fileId # 0
    /\ inbox[r][i + 1].msg.type = "chat-message"
    /\ awaiting[c] = 1
    /\ Count(calls, "updateFile", <<10, "x=1">>) = 1
    /\ Count(calls, "createFile", <<1, "main.py", "", "javascript">>) = 0

\* C7: a code-change with a file id, sent by a member of its session, reaches
\* the registered open sockets of the other members unchanged, once each;
\* the sender's socket is sent nothing; updateFile(fileId, content) is
\* invoked once, and no other storage method is.
C7_CodeChange ==
  [][nmsgs' # nmsgs =>
       \A c \in Conns : \A data \in WebSocketMessage(c, {"code-change"}, Sessions) :
         (data.payload.fileId # 0 /\ SendsAsMember(c, data) /\ OnMessage(c, data))
           => /\ DeliveredOnceTo(ExpectedReceivers(data.sessionId, Participant(c, data)), data)
              /\ inbox'[c] = inbox[c]
              /\ Count(calls', "updateFile", <<data.payload.fileId, data.payload.content>>)
                   = Count(calls, "updateFile", <<data.payload.fileId, data.payload.content>>) + 1
              /\ BagCardinality(calls') = BagCardinality(calls) + 1]_vars

\* C7 witness: participant 2 joined session 1, then participant 1 joined and
\* sent code-change {fileId: 10, content: "x=1"}; 2's socket was sent it,
\* 1's socket nothing, updateFile(10, "x=1") was invoked once.
C7_Witness ==
  /\ sessionClients = (1 :> {1, 2})
  /\ inbox["c1"] = <<>>
  /\ Len(inbox["c2"]) = 2
  /\ inbox["c2"][2].from = "c1"
  /\ inbox["c2"][2].msg = [type |-> "code-change", sessionId |-> 1, userId |-> 1,
                           payload |-> [NoPayload EXCEPT !.fileId = 10, !.content = "x=1"]]
  /\ Count(calls, "updateFile", <<10, "x=1">>) = 1

\* The close handling of c has run to its end; c is the one connection that
\* ever joined S, it sent no session-leave, and no other connection is bound
\* to its participant.
C8_Scope(c, S) ==
  /\ closePc[c] = "done"
  /\ hist[c].joined = {S} /\ hist[c].left = {}
  /\ \A d \in Conns \ {c} : S \notin hist[d].joined /\ userId[d] # userId[c]

C9_RegisteredIffSentAndOpen ==
  \A c \in Conns : Registered(c) <=> (hist[c].sent /\ closePc[c] = "open")

\* C9 (amended): a connection in the registry has sent at least one
\* session-join, has not closed, and is filed under its bound id.
C9_RegisteredOnlyIfJoinedAndOpen ==
  \A c \in Conns :
    Registered(c) =>
      /\ hist[c].joined # {}
      /\ closePc[c] = "open"
      /\ userId[c] \in DOMAIN connectedClients /\ connectedClients[userId[c]] = c

\* C9 witness: one connection is registered, another has sent events, none
\* of them a session-join, is open and is not registered, a third has closed.
C9_Witness ==
  \E c, d, e \in Conns :
    /\ Registered(c)
    /\ hist[d].sent /\ hist[d].joined = {} /\ closePc[d] = "open" /\ ~Registered(d)
    /\ hist[e].joined # {} /\ closePc[e] = "done"

\* C10 (as claimed): a membership entry appears only in the step of a
\* session-join from that participant for that session, and when the close
\* handler of a connection has done its membership removal, its participant
\* is in the membership set of none of the sessions the connection joined.
C10_EntriesFollowConnection ==
  [][/\ \A s \in Sessions : \A u \in members(sessionClients', s) \ members(sessionClients, s) :
          \E c \in Conns : /\ userId'[c] = u
                           /\ hist'[c].last = "join" /\ s \in hist'[c].joined
                           /\ sessionId'[c] = s /\ nmsgs' # nmsgs
     /\ \A c \in Conns :
          (closePc[c] \in {"getUser", "updateUser"} /\ closePc'[c] \in {"endSession", "done"})
            => \A s \in hist[c].joined : userId[c] \notin members(sessionClients', s)]_vars

\* an envelope lacks one of its four fields
Malformed(data) ==
  \/ data.type \notin MessageType
  \/ data.sessionId = 0
  \/ data.userId = 0
  \/ data.payload = Undefined

\* the step changes nothing the relay keeps or emits
Dropped ==
  /\ inbox' = inbox
  /\ connectedClients' = connectedClients
  /\ sessionClients' = sessionClients
  /\ calls' = calls
  /\ readyState' = readyState

\* C11 (as claimed): a message that cannot be parsed, or an envelope that
\* lacks type, sessionId, userId or payload, causes no broadcast, no
\* registry or membership change and no storage call, and leaves the
\* connection open.
C11_MalformedIsDropped ==
  [][nmsgs' # nmsgs =>
       /\ \A c \in Conns : OnUnparseable(c) => Dropped
       /\ \A c \in Conns :
            \A data \in Garbled(c, {"session-join", "chat-message", "file-create"}, {1}) :
              (Malformed(data) /\ OnMessage(c, data)) => Dropped]_vars

\* C12: updateFile, createFile and endSession are started only once the
\* event's broadcast has been delivered to every receiver; when the call
\* then settles, by failing or not, no delivery is retracted or repeated,
\* the call is not made again and the connection stays open.
C12_StorageAfterBroadcast ==
  [][/\ (nmsgs' # nmsgs /\ calls' # calls) =>
          \A c \in {"c1", "c2"} : \A data \in WebSocketMessage(c, EffectKinds, {1}) :
            OnMessage(c, data)
              => DeliveredOnceTo(ExpectedReceivers(sessionId'[c], userId'[c]), data)
     /\ \A c \in {"c1", "c2"} :
          (nmsgs' = nmsgs /\ awaiting'[c] < awaiting[c])
            => /\ inbox' = inbox
               /\ calls' = calls
               /\ readyState' = readyState
               /\ closePc' = closePc]_vars

\* C12 witness: an event was delivered to the other member, its storage
\* call has settled and both connections are open.
C12_Witness ==
  /\ \E i \in 1..Len(inbox["c2"]) :
       inbox["c2"][i].from = "c1" /\ inbox["c2"][i].msg.type \in {"code-change", "file-create"}
  /\ BagCardinality(calls) > 0
  /\ awaiting["c1"] = 0
  /\ readyState = [c \in Conns |-> "OPEN"]

\* the sockets a step sent something to
Receivers == {r \in Conns : inbox'[r] # inbox[r]}

\* the step is the close handler of c passing lines 119-145
RemovesFromSession(c) ==
  /\ closePc[c] \in {"getUser", "updateUser"}
  /\ closePc'[c] \in {"endSession", "done"}

\* C13: when the connection of a member P of S closes, the close handler
\* leaves the membership of S, sends the session-leave envelope to the
\* remaining members and decides on ending S exactly as the message handler
\* would have, in the same state, for a session-leave of P naming S.
C13_CloseConvergesWithLeave ==
  [][\A c \in Conns :
       (/\ RemovesFromSession(c)
        /\ sessionId[c] # 0
        /\ userId[c] \in members(sessionClients, sessionId[c]))
         => LET data == leaveMsg(c)
            IN /\ sessionClients' = LeftClients(c, data)
               /\ Receivers = {connectedClients[u] :
                                 u \in Targets(readyState, connectedClients, BroadcastIds(c, data))}
               /\ \A r \in Receivers : inbox'[r][Len(inbox'[r])].msg = data
               /\ (closePc'[c] = "endSession") <=> (StorageCall(c, data) # <<>>)]_vars

\* C13 witness: a member's connection closed while another member was
\* registered and open; the other member got the session-leave envelope
\* and the session was not ended.
C13_Witness ==
  \E c \in Conns : \E r \in Conns \ {c} :
    /\ closePc[c] = "done"
    /\ sessionId[c] # 0
    /\ userId[r] \in members(sessionClients, sessionId[c])
    /\ \E i \in 1..Len(inbox[r]) : inbox[r][i].from = c /\ inbox[r][i].msg = leaveMsg(c)
    /\ Count(calls, "endSession", <<sessionId[c]>>) = 0

\* no storage call is under way
Quiet == jobs = <<>>

\* C14: once the code-change events for a file have been processed, the
\* stored content of the file is that of the event that arrived last.
C14_LastArrivalWins ==
  Quiet => \A f \in DOMAIN edits : files[f] = edits[f][Len(edits[f])].content

\* C14 witness: two code-change events for one file, with different
\* contents and from different connections, have been processed.
C14_Witness ==
  /\ Quiet
  /\ \E f \in DOMAIN edits : \E i \in 1..(Len(edits[f]) - 1) :
       /\ edits[f][i].from # edits[f][i + 1].from
       /\ edits[f][i].content # edits[f][i + 1].content

\* C15 (as claimed): every inbound event is delivered to the registered,
\* open sockets of the members of the session its own sessionId field
\* names, the sender left out, whatever session the connection remembers
\* and whether or not it has joined one.
C15_FanOutByEventSession ==
  [][nmsgs' # nmsgs =>
       \A c \in Conns : \A data \in WebSocketMessage(c, RelayKinds, Sessions) :
         OnMessage(c, data)
           => Receivers = ExpectedReceivers(data.sessionId, Participant(c, data))]_vars

\* the maps differ at most at key k
SameButAt(m, n, k) ==
  /\ DOMAIN m \ {k} = DOMAIN n \ {k}
  /\ \A j \in DOMAIN m \ {k} : m[j] = n[j]

\* C16: the id bound to a connection is the userId of its first message and
\* never changes.  A join registers the socket under the bound id and adds
\* the bound id to the session; a leave removes nothing but the bound id;
\* the socket registered under the bound id is sent nothing; the close
\* handler unregisters the bound id and removes it from the session.
C16_BoundIdIsFirstAndUsed ==
  [][\A c \in Conns :
       /\ userId[c] # 0 => userId'[c] = userId[c]
       /\ nmsgs' # nmsgs =>
            \A data \in WebSocketMessage(c, RelayKinds, {1}) :
              OnMessage(c, data) =>
                LET P == IF hist[c].sent THEN userId[c] ELSE data.userId
                IN /\ userId'[c] = P
                   /\ SameButAt(connectedClients, connectedClients', P)
                   /\ \A s \in DOMAIN sessionClients :
                        sessionClients[s] \ {P} = sessionClients'[s] \ {P}
                   /\ data.type = "session-join" =>
                        /\ connectedClients'[P] = c
                        /\ P \in sessionClients'[data.sessionId]
                   /\ data.type = "session-leave" => P \notin members(sessionClients', sessionId[c])
                   /\ P \in DOMAIN connectedClients' => connectedClients'[P] \notin Receivers
       /\ (closePc[c] = "open" /\ closePc'[c] # "open") =>
            /\ SameButAt(connectedClients, connectedClients', userId[c])
            /\ userId[c] \notin DOMAIN connectedClients'
       /\ RemovesFromSession(c) =>
            /\ \A s \in DOMAIN sessionClients :
                 sessionClients[s] \ {userId[c]} = sessionClients'[s] \ {userId[c]}
            /\ userId[c] \notin members(sessionClients', sessionId[c])]_vars

\* C16 witness: a connection whose first message carried id 1 later sent a
\* join carrying id 3, and is bound to, registered as and a member as 1,
\* while 3 is neither registered nor a member.
C16_Witness ==
  /\ userId["c3"] = 1
  /\ \E i \in 1..Len(inbox["c2"]) :
       inbox["c2"][i].from = "c3" /\ inbox["c2"][i].msg.userId = 3
                                  /\ inbox["c2"][i].msg.type = "session-join"
  /\ 1 \in DOMAIN connectedClients /\ connectedClients[1] = "c3"
  /\ 1 \in members(sessionClients, 1)
  /\ 3 \notin DOMAIN connectedClients
  /\ 3 \notin members(sessionClients, 1)

\* the members of the sender's session, the sender left out, after the step
OtherMembers(c) == members(sessionClients', sessionId'[c]) \ {userId'[c]}

\* C17: the members without a registry entry or with a socket that is not
\* open are sent nothing, every other member's socket is sent the event
\* once, the sender's socket stays open and the createFile of a file-create
\* is invoked all the same.
C17_StaleMembersSkipped ==
  [][nmsgs' # nmsgs =>
       \A c \in Conns : \A data \in SkipMessages(c) :
         OnMessage(c, data) =>
           /\ DeliveredOnceTo({connectedClients'[u] :
                                 u \in {m \in OtherMembers(c) :
                                          /\ m \in DOMAIN connectedClients'
                                          /\ readyState[connectedClients'[m]] = "OPEN"}}, data)
           /\ readyState' = readyState
           /\ (data.type = "file-create" /\ sessionId[c] # 0)
                => BagCardinality(calls') = BagCardinality(calls) + 1]_vars

\* C17 witness: participant 3 is a member of session 1 and has no registry
\* entry, its close handler is through and its socket was never sent
\* anything; the file-create of c1 reached c2, which is open and got nothing
\* from c3 (so c3 joined session 1 before c2), and createFile was invoked.
C17_Witness ==
  /\ 3 \in members(sessionClients, 1)
  /\ 3 \notin DOMAIN connectedClients
  /\ readyState = [c \in Conns |-> IF c = "c3" THEN "CLOSED" ELSE "OPEN"]
  /\ closePc["c3"] = "done"
  /\ inbox["c3"] = <<>>
  /\ \A i \in 1..Len(inbox["c2"]) : inbox["c2"][i].from # "c3"
  /\ \E i \in 1..Len(inbox["c2"]) : inbox["c2"][i].msg.type = "file-create"
  /\ Count(calls, "createFile", <<1, "main.py", "", "javascript">>) = 1

\* C18 (as claimed): a session-leave of a participant who is not in the
\* membership set of the session it names changes no membership set and
\* invokes no storage call.
C18_LeaveOfNonMemberIsNoOp ==
  [][nmsgs' # nmsgs =>
       \A c \in Conns : \A data \in WebSocketMessage(c, {"session-leave"}, Sessions) :
         (Participant(c, data) \notin members(sessionClients, data.sessionId) /\ OnMessage(c, data))
           => (sessionClients' = sessionClients /\ calls' = calls)]_vars

\* C19 (as claimed): the step in which a storage call of a close handler
\* rejects changes no socket's state, no registry entry and no membership;
\* the settling of a message handler's storage call changes none either;
\* and once a call has rejected, a socket is still closed by nothing but
\* its own close event, so that the open connections go on being served.
C19_StorageFailureIsContained ==
  [][/\ (rejects' # rejects \/ (nmsgs' = nmsgs /\ awaiting' # awaiting /\ closePc' = closePc))
          => /\ readyState' = readyState
             /\ connectedClients' = connectedClients
             /\ sessionClients' = sessionClients
     /\ (\E c \in Conns : closePc[c] = "failed")
          => \A o \in Conns :
               (readyState[o] # "CLOSED" /\ readyState'[o] = "CLOSED")
                 => closePc'[o] \in {"getUser", "done"}]_vars

\* the close of c has been observed, and the removal from the session, the
\* leave broadcast and the session-end check are still to come
Reconciling(c) == closePc[c] \in {"getUser", "updateUser"}

\* the close handler of c is past its session-end check, and the participant
\* of c is out of the session c remembers unless another connection speaks
\* for the same participant
Reconciled(c) ==
  (/\ closePc[c] \in {"endSession", "done"}
   /\ \A o \in Conns \ {c} : userId[o] # userId[c])
    => userId[c] \notin members(sessionClients, sessionId[c])

\* C20: from the close event of a connection to the end of its handler's
\* session-end check no message of any connection is handled and no other
\* connection's close is taken up; whatever is handled afterwards finds the
\* closed participant out of the membership set.
C20_CloseBeforeLaterEvents ==
  [][/\ \A c \in Conns :
          Reconciling(c) =>
            /\ nmsgs' = nmsgs
            /\ \A o \in Conns \ {c} : closePc'[o] = closePc[o] /\ readyState'[o] = readyState[o]
     /\ nmsgs' # nmsgs => \A c \in Conns : Reconciled(c)]_vars

\* C20 witness: a member's close handler is suspended before its removal
\* from the session while another member's socket is registered and open
\* and messages are still to come.
C20_Witness ==
  \E c \in Conns : \E o \in Conns \ {c} :
    /\ Reconciling(c)
    /\ userId[c] \in members(sessionClients, sessionId[c])
    /\ userId[o] \in members(sessionClients, sessionId[c])
    /\ Registered(o)
    /\ readyState[o] = "OPEN"
    /\ nmsgs < MaxMsgs

\* C21: a join as a participant that another socket is registered under puts
\* the joining socket in that socket's place and leaves the other socket's
\* state alone; and whatever a message step sends goes to sockets that are
\* registered, so that the replaced socket is sent nothing.
C21_LaterConnectionReplaces ==
  [][nmsgs' # nmsgs =>
       /\ \A c \in Conns : \A data \in WebSocketMessage(c, {"session-join"}, {1}) :
            OnMessage(c, data) =>
              /\ connectedClients'[Participant(c, data)] = c
              /\ readyState' = readyState
       /\ \A r \in Receivers : \E u \in DOMAIN connectedClients' : connectedClients'[u] = r]_vars

\* C21 witness: c1 and c3 both joined session 1 as participant 1, c3 later;
\* both sockets are open, c3 is the one registered, and the join c2 sent
\* afterwards reached c3 and not c1.
C21_Witness ==
  /\ userId["c1"] = 1 /\ userId["c3"] = 1
  /\ sessionId["c1"] = 1 /\ sessionId["c3"] = 1
  /\ readyState["c1"] = "OPEN" /\ readyState["c3"] = "OPEN"
  /\ 1 \in DOMAIN connectedClients /\ connectedClients[1] = "c3"
  /\ inbox["c1"] = <<>>
  /\ \E i \in 1..Len(inbox["c3"]) :
       inbox["c3"][i].from = "c2" /\ inbox["c3"][i].msg.type = "session-join"

\* C22 (as claimed): every file-create event is followed by exactly one
\* storage.createFile call, under the session the event names, with the
\* payload's name, its content or '' and its language or 'javascript'.
C22_FileCreatePersists ==
  [][nmsgs' # nmsgs =>
       \A c \in Conns : \A data \in WebSocketMessage(c, {"file-create"}, {1}) :
         OnMessage(c, data) =>
           LET args == <<data.sessionId, data.payload.name,
                         IF data.payload.content = "" THEN "" ELSE data.payload.content,
                         IF data.payload.language = "" THEN "javascript"
                         ELSE data.payload.language>>
           IN /\ Count(calls', "createFile", args) = Count(calls, "createFile", args) + 1
              /\ BagCardinality(calls') = BagCardinality(calls) + 1]_vars

\* the socket o is the one registered under its participant, who is a
\* member of the session o remembers
RegisteredMember(o) ==
  /\ userId[o] \in DOMAIN connectedClients
  /\ connectedClients[userId[o]] = o
  /\ userId[o] \in members(sessionClients, sessionId[o])

\* C23 (as claimed): no step of the close handler of a connection takes
\* another connection out of the registry or its participant out of the
\* membership set, also when both connections speak for one participant.
C23_CloseOfReplacedKeepsLater ==
  [][\A c \in Conns : \A o \in Conns \ {c} :
       (closePc'[c] # closePc[c] /\ RegisteredMember(o)) => RegisteredMember(o)']_vars

\* the connection o is open, its latest join named S, and it has sent no
\* session-leave since
JoinedAndOpen(o, S) ==
  /\ readyState[o] = "OPEN"
  /\ closePc[o] = "open"
  /\ sessionId[o] = S
  /\ hist[o].last = "join"

\* C24 (as claimed): no step invokes storage.endSession(S) and leaves a
\* connection that is open and joined to S.
C24_NoEndWhileJoined ==
  [][\A S \in Sessions :
       Count(calls', "endSession", <<S>>) > Count(calls, "endSession", <<S>>)
         => \A o \in Conns : ~JoinedAndOpen(o, S)']_vars

\* C25 (as claimed): whatever the message handler of a connection sends, it
\* sends to sockets whose latest join named the session the event is
\* broadcast to, which is the session the sender remembers.
C25_SessionIsolation ==
  [][nmsgs' # nmsgs =>
       \A c \in Conns : \A data \in WebSocketMessage(c, RelayKinds, Sessions) :
         OnMessage(c, data) => \A r \in Receivers : sessionId'[r] = sessionId'[c]]_vars

\* C26 (as claimed): an event other than a session-join, sent by a
\* connection whose latest join or leave was a session-leave, is delivered
\* to nobody.
C26_NothingAfterLeave ==
  [][nmsgs' # nmsgs =>
       \A c \in {"c1", "c2"} : \A data \in WebSocketMessage(c, EffectKinds \ {"session-join"}, {1}) :
         (hist[c].last = "leave" /\ OnMessage(c, data)) => Receivers = {}]_vars

\* C27 (as claimed): the close handler of a connection whose latest join or
\* leave was a session-leave sends nothing: the members were sent the
\* session-leave of that departure when the leave was handled.
C27_OneLeavePerDeparture ==
  [][\A c \in Conns :
       (RemovesFromSession(c) /\ hist[c].last = "leave") => Receivers = {}]_vars

\* C28 (as claimed): a close handler that a rejected storage call has ended
\* has removed its participant from the session the connection remembers
\* (no other connection speaking for that participant).
C28_RemovedDespiteFailure ==
  \A c \in Conns :
    (/\ closePc[c] = "failed"
     /\ \A o \in Conns \ {c} : userId[o] # userId[c])
      => userId[c] \notin members(sessionClients, sessionId[c])

\* C29: after disconnect() the client opens no socket until connect() is
\* called again: a step that creates a socket happens only while the latest
\* call of the page's was a connect; and the close event of a socket that
\* close() was called on (by disconnect(), or by the connect() that replaced
\* it) leaves no reconnect timeout pending for it, and leaves isConnected as
\* it was when a newer socket is open.
NewerOpen(s) == \E n \in DOMAIN sockets : n > s /\ sockets[n] = "OPEN"

C29_NoReconnectAfterDisconnect ==
  [][/\ Len(sockets') > Len(sockets) => app'.connect
     /\ \A s \in DOMAIN sockets :
          (sockets[s] = "CLOSING" /\ sockets'[s] = "CLOSED") =>
            /\ s \notin timers'
            /\ NewerOpen(s) => client'.isConnected = client.isConnected]_vars

\* C30: the joinSession(sessionId) the session page calls right after
\* connect(userId) leads to a session-join for that session having been sent
\* once the socket is open: while the page stays on the session and the
\* socket that connect created stays open, the session-join is eventually sent.
MountedOpen(sid) ==
  /\ app.join = sid
  /\ client.socket = app.socket
  /\ sockets[app.socket] = "OPEN"

JoinSent(sid) ==
  \E i \in DOMAIN sent : /\ sent[i].message.type = "session-join"
                         /\ sent[i].message.sessionId = sid

C30_MountJoins ==
  \A sid \in PageSessions : MountedOpen(sid) ~> (~MountedOpen(sid) \/ JoinSent(sid))

====
